---- MODULE Spec2Model ----
(***************************************************************************)
(* Device-licensing gatekeeper, src/public-server.js.                      *)
(*                                                                         *)
(* The file holds two server programs:                                     *)
(*   "memory"  (lines 1-171):   loads server.json once into `state`,       *)
(*             answers from memory, writes the whole state after every     *)
(*             mutation;                                                   *)
(*   "reload"  (lines 173-489): keeps nothing in memory, reloads           *)
(*             server.json in every handler, tracks pending and lastSeen.  *)
(*                                                                         *)
(* A string is a sequence of one-character strings, so that trimming is    *)
(* computed.  Every handler runs to completion (node runs one callback at  *)
(* a time and all file access is synchronous); a POST is two steps, the    *)
(* request's arrival (routing, authorization) and the end of its body.     *)
(***************************************************************************)
EXTENDS Naturals, Sequences, FiniteSets, Bags, TLC

VARIABLES
    variant,     \* which of the two programs is running
    state,       \* memory variant: `let state = loadData()`
    dataFile,    \* memory variant: the content of DATA_FILE
    serverFile,  \* reload variant: the content of SERVER_FILE
    inflight,    \* the bag of POSTs whose body is still being read
    race         \* observer: the progress of a concurrent allow/block pair

vars == <<variant, state, dataFile, serverFile, inflight, race>>

(***************************************************************************)
(* Bounds and inputs                                                       *)
(***************************************************************************)
MaxInflight == 2
MaxTime == 1

Times == 0..MaxTime

DEFAULT_ADMIN_TOKEN == "admin_7f9e2a1b_8c4d_9e5f_0a1b_2c3d4e5f6a7b"

EmptyStr == <<>>
StrA == <<"a">>
RawIds == { EmptyStr, <<" ">>, StrA, <<" ", "a">> }

Headers ==
    { [scheme |-> "none",   token |-> ""],
      [scheme |-> "Bearer", token |-> "wrong"],
      [scheme |-> "Bearer", token |-> DEFAULT_ADMIN_TOKEN] }

\* A POST body: text that JSON.parse rejects, or an object with a deviceId.
Bodies ==
    { [valid |-> FALSE, deviceId |-> EmptyStr] }
        \cup { [valid |-> TRUE, deviceId |-> r] : r \in RawIds }

\* Outcome of each fs.writeFileSync a handler step may perform.
AllWritesOk == [auth |-> TRUE, load |-> TRUE, save |-> TRUE]
WritesSucceed == { AllWritesOk }
WritesMayFail == [auth : BOOLEAN, load : BOOLEAN, save : BOOLEAN]

(***************************************************************************)
(* Strings and arrays                                                      *)
(***************************************************************************)
IsSpace(c) == c = " "

RECURSIVE TrimStart(_)
TrimStart(s) ==
    IF s # <<>> /\ IsSpace(Head(s)) THEN TrimStart(Tail(s)) ELSE s

RECURSIVE TrimEnd(_)
TrimEnd(s) ==
    IF s # <<>> /\ IsSpace(s[Len(s)])
    THEN TrimEnd(SubSeq(s, 1, Len(s) - 1))
    ELSE s

\* String(x || '').trim()
trim(s) == TrimEnd(TrimStart(s))

\* !deviceId on a string: only the empty string is falsy
IsFalsy(s) == s = EmptyStr

includes(list, x) == \E i \in 1..Len(list) : list[i] = x

without(list, x) == SelectSeq(list, LAMBDA id : id # x)

push(list, x) == Append(list, x)

\* Mutant of pushIfAbsent: the includes test is left out.
pushAlways(list, x) == push(list, x)

pushIfAbsent(list, x) == IF includes(list, x) THEN list ELSE push(list, x)

Elems(list) == { list[i] : i \in 1..Len(list) }

Count(list, x) == Cardinality({ i \in 1..Len(list) : list[i] = x })

\* obj[key] = value
setKey(obj, key, value) ==
    [k \in (DOMAIN obj) \cup {key} |-> IF k = key THEN value ELSE obj[k]]

(***************************************************************************)
(* Memory variant: the data file                                           *)
(***************************************************************************)
SeedState == [adminToken |-> DEFAULT_ADMIN_TOKEN, allow |-> <<>>, block |-> <<>>]

\* JSON.stringify(data) written to DATA_FILE; the file is unchanged when the
\* write throws (the error is swallowed).
saveData(file, data, ok) == IF ok THEN data ELSE file

isAuthorized(h, st) ==
    LET token == IF h.scheme = "Bearer" THEN h.token ELSE ""
    IN  token # "" /\ token = st.adminToken

(***************************************************************************)
(* Reload variant: the server file                                         *)
(***************************************************************************)
NoLastSeen == [k \in {} |-> 0]

Absent  == [kind |-> "absent",  adminToken |-> "", allow |-> <<>>,
            block |-> <<>>, pending |-> <<>>, lastSeen |-> NoLastSeen]
Corrupt == [kind |-> "corrupt", adminToken |-> "", allow |-> <<>>,
            block |-> <<>>, pending |-> <<>>, lastSeen |-> NoLastSeen]

seed == [adminToken |-> DEFAULT_ADMIN_TOKEN, allow |-> <<>>, block |-> <<>>,
         pending |-> <<>>, lastSeen |-> NoLastSeen]

\* JSON.stringify(data) as the content of SERVER_FILE
Stringify(data) ==
    [kind |-> "json", adminToken |-> data.adminToken, allow |-> data.allow,
     block |-> data.block, pending |-> data.pending, lastSeen |-> data.lastSeen]

\* Mutant of saveServerData: the answer is sent without the write.
saveServerData_skip(file, data, ok) == file

saveServerData(file, data, ok) == IF ok THEN Stringify(data) ELSE file

\* Returns the loaded data and the file as loadServerData leaves it: a missing
\* or unparseable file is replaced by the seed (when that write succeeds).
loadServerData(file, ok) ==
    IF file.kind = "json"
    THEN [data |-> [adminToken |-> IF file.adminToken = ""
                                   THEN DEFAULT_ADMIN_TOKEN
                                   ELSE file.adminToken,
                    allow |-> file.allow,
                    block |-> file.block,
                    pending |-> file.pending,
                    lastSeen |-> file.lastSeen],
          file |-> file]
    ELSE [data |-> seed, file |-> saveServerData(file, seed, ok)]

\* Mutant of authenticateRequest: any bearer token is accepted.
authenticateRequest_anyBearer(h, file, ok) ==
    IF h.scheme # "Bearer"
    THEN [ok |-> FALSE, file |-> file]
    ELSE LET l == loadServerData(file, ok)
         IN  [ok |-> TRUE, file |-> l.file]

\* Returns whether the request is authorized and the file as the load leaves it.
authenticateRequest(h, file, ok) ==
    IF h.scheme # "Bearer"
    THEN [ok |-> FALSE, file |-> file]
    ELSE LET l == loadServerData(file, ok)
         IN  [ok |-> h.token = l.data.adminToken, file |-> l.file]

(***************************************************************************)
(* Responses                                                               *)
(***************************************************************************)
Resp(code, body) == [code |-> code, body |-> body]

Decision(allowed, reason) ==
    [allowed |-> allowed, forceExit |-> ~allowed, intervalSec |-> 30,
     reason |-> reason]

Error(msg) == [error |-> msg]

unauthorized == Resp(401, Error("Unauthorized"))

notFound == Resp(404, Error("Not found"))

\* The deviceId a POST body carries; readBody and JSON.parse failures aside.
BodyId(body) == IF body.valid THEN body.deviceId ELSE EmptyStr

(***************************************************************************)
(* Memory variant: handlers.  Each returns the new state, the new content  *)
(* of the data file and the response.                                      *)
(***************************************************************************)
Out(st, file, resp) == [state |-> st, file |-> file, resp |-> resp]

checkMem(st, raw) ==
    LET deviceId == trim(raw)
        decision ==
            IF IsFalsy(deviceId) THEN Decision(FALSE, "missing deviceId")
            ELSE IF includes(st.block, deviceId) THEN Decision(FALSE, "blocked")
            ELSE IF includes(st.allow, deviceId) THEN Decision(TRUE, "")
            ELSE Decision(FALSE, "not allowed")
    IN  Resp(200, decision)

listMem(st) ==
    Resp(200, [allow |-> st.allow, block |-> st.block])

\* Mutant of postAllowMem: the identifier is appended without the includes test.
postAllowMem_append(st, file, body, w) ==
    LET deviceId == trim(BodyId(body))
        st1 == [st EXCEPT !.allow = push(st.allow, deviceId)]
        st2 == [st1 EXCEPT !.block = without(st1.block, deviceId)]
    IN  IF IsFalsy(deviceId)
        THEN Out(st, file, Resp(400, Error("deviceId required")))
        ELSE Out(st2, saveData(file, st2, w.save),
                 Resp(200, [ok |-> TRUE, allow |-> st2.allow]))

postAllowMem(st, file, body, w) ==
    LET deviceId == trim(BodyId(body))
        st1 == [st EXCEPT !.allow = pushIfAbsent(st.allow, deviceId)]
        st2 == [st1 EXCEPT !.block = without(st1.block, deviceId)]
    IN  IF IsFalsy(deviceId)
        THEN Out(st, file, Resp(400, Error("deviceId required")))
        ELSE Out(st2, saveData(file, st2, w.save),
                 Resp(200, [ok |-> TRUE, allow |-> st2.allow]))

\* Mutant of postBlockMem: the identifier is not removed from the allow list.
postBlockMem_keepAllow(st, file, body, w) ==
    LET deviceId == trim(BodyId(body))
        st1 == [st EXCEPT !.block = pushIfAbsent(st.block, deviceId)]
        st2 == st1
    IN  IF IsFalsy(deviceId)
        THEN Out(st, file, Resp(400, Error("deviceId required")))
        ELSE Out(st2, saveData(file, st2, w.save),
                 Resp(200, [ok |-> TRUE, block |-> st2.block]))

postBlockMem(st, file, body, w) ==
    LET deviceId == trim(BodyId(body))
        st1 == [st EXCEPT !.block = pushIfAbsent(st.block, deviceId)]
        st2 == [st1 EXCEPT !.allow = without(st1.allow, deviceId)]
    IN  IF IsFalsy(deviceId)
        THEN Out(st, file, Resp(400, Error("deviceId required")))
        ELSE Out(st2, saveData(file, st2, w.save),
                 Resp(200, [ok |-> TRUE, block |-> st2.block]))

deleteAllowMem(st, file, raw, w) ==
    LET deviceId == trim(raw)
        st1 == [st EXCEPT !.allow = without(st.allow, deviceId)]
    IN  Out(st1, saveData(file, st1, w.save),
            Resp(200, [ok |-> TRUE, allow |-> st1.allow]))

deleteBlockMem(st, file, raw, w) ==
    LET deviceId == trim(raw)
        st1 == [st EXCEPT !.block = without(st.block, deviceId)]
    IN  Out(st1, saveData(file, st1, w.save),
            Resp(200, [ok |-> TRUE, block |-> st1.block]))

(***************************************************************************)
(* Reload variant: handlers.  Each returns the new content of the server   *)
(* file and the response.                                                  *)
(***************************************************************************)
FileOut(file, resp) == [file |-> file, resp |-> resp]

\* Mutant of checkSrv: the file is loaded before the deviceId is tested.
checkSrv_loadFirst(file, raw, now, w) ==
    LET deviceId == trim(raw)
        l == loadServerData(file, w.load)
        seen == [l.data EXCEPT !.lastSeen = setKey(l.data.lastSeen, deviceId, now)]
        queued == [seen EXCEPT !.pending = pushIfAbsent(seen.pending, deviceId)]
    IN  IF IsFalsy(deviceId)
        THEN FileOut(l.file, Resp(400, Decision(FALSE, "missing deviceId")))
        ELSE IF includes(seen.allow, deviceId)
        THEN FileOut(saveServerData(l.file, seen, w.save),
                     Resp(200, Decision(TRUE, "")))
        ELSE IF includes(seen.block, deviceId)
        THEN FileOut(saveServerData(l.file, seen, w.save),
                     Resp(200, Decision(FALSE, "device blocked")))
        ELSE FileOut(saveServerData(l.file, queued, w.save),
                     Resp(200, Decision(FALSE, "not allowed")))

\* Mutant of checkSrv: the record written back is built on the seed, not on the
\* data just loaded.
checkSrv_stale(file, raw, now, w) ==
    LET deviceId == trim(raw)
        l == loadServerData(file, w.load)
        seen == [seed EXCEPT !.lastSeen = setKey(l.data.lastSeen, deviceId, now)]
        queued == [seen EXCEPT !.pending = pushIfAbsent(seen.pending, deviceId)]
    IN  IF IsFalsy(deviceId)
        THEN FileOut(file, Resp(400, Decision(FALSE, "missing deviceId")))
        ELSE IF includes(seen.allow, deviceId)
        THEN FileOut(saveServerData(l.file, seen, w.save),
                     Resp(200, Decision(TRUE, "")))
        ELSE IF includes(seen.block, deviceId)
        THEN FileOut(saveServerData(l.file, seen, w.save),
                     Resp(200, Decision(FALSE, "device blocked")))
        ELSE FileOut(saveServerData(l.file, queued, w.save),
                     Resp(200, Decision(FALSE, "not allowed")))

\* Mutant of checkSrv: the identifier is queued as pending before it is
\* classified.
checkSrv_queueFirst(file, raw, now, w) ==
    LET deviceId == trim(raw)
        l == loadServerData(file, w.load)
        seen == [l.data EXCEPT !.lastSeen = setKey(l.data.lastSeen, deviceId, now),
                           !.pending = pushIfAbsent(l.data.pending, deviceId)]
        queued == [seen EXCEPT !.pending = pushIfAbsent(seen.pending, deviceId)]
    IN  IF IsFalsy(deviceId)
        THEN FileOut(file, Resp(400, Decision(FALSE, "missing deviceId")))
        ELSE IF includes(seen.allow, deviceId)
        THEN FileOut(saveServerData(l.file, seen, w.save),
                     Resp(200, Decision(TRUE, "")))
        ELSE IF includes(seen.block, deviceId)
        THEN FileOut(saveServerData(l.file, seen, w.save),
                     Resp(200, Decision(FALSE, "device blocked")))
        ELSE FileOut(saveServerData(l.file, queued, w.save),
                     Resp(200, Decision(FALSE, "not allowed")))

checkSrv(file, raw, now, w) ==
    LET deviceId == trim(raw)
        l == loadServerData(file, w.load)
        seen == [l.data EXCEPT !.lastSeen = setKey(l.data.lastSeen, deviceId, now)]
        queued == [seen EXCEPT !.pending = pushIfAbsent(seen.pending, deviceId)]
    IN  IF IsFalsy(deviceId)
        THEN FileOut(file, Resp(400, Decision(FALSE, "missing deviceId")))
        ELSE IF includes(seen.allow, deviceId)
        THEN FileOut(saveServerData(l.file, seen, w.save),
                     Resp(200, Decision(TRUE, "")))
        ELSE IF includes(seen.block, deviceId)
        THEN FileOut(saveServerData(l.file, seen, w.save),
                     Resp(200, Decision(FALSE, "device blocked")))
        ELSE FileOut(saveServerData(l.file, queued, w.save),
                     Resp(200, Decision(FALSE, "not allowed")))

listSrv(file, w) ==
    LET l == loadServerData(file, w.load)
    IN  FileOut(l.file,
                Resp(200, [allow |-> l.data.allow, block |-> l.data.block,
                      pending |-> l.data.pending, lastSeen |-> l.data.lastSeen]))

\* Mutant of postAllowSrv: the identifier is not removed from the pending list.
postAllowSrv_keepPending(file, body, w) ==
    LET deviceId == body.deviceId
        l == loadServerData(file, w.load)
        d1 == l.data
        d2 == [d1 EXCEPT !.block = without(d1.block, deviceId)]
        d3 == [d2 EXCEPT !.allow = pushIfAbsent(d2.allow, deviceId)]
    IN  IF ~body.valid
        THEN FileOut(file, Resp(400, Error("Invalid JSON")))
        ELSE IF IsFalsy(deviceId)
        THEN FileOut(file, Resp(400, Error("deviceId required")))
        ELSE FileOut(saveServerData(l.file, d3, w.save),
                     Resp(200, [ok |-> TRUE, allow |-> d3.allow]))

\* Mutant of postAllowSrv: the identifier is not removed from the block list.
postAllowSrv_keepBlock(file, body, w) ==
    LET deviceId == body.deviceId
        l == loadServerData(file, w.load)
        d1 == [l.data EXCEPT !.pending = without(l.data.pending, deviceId)]
        d2 == d1
        d3 == [d2 EXCEPT !.allow = pushIfAbsent(d2.allow, deviceId)]
    IN  IF ~body.valid
        THEN FileOut(file, Resp(400, Error("Invalid JSON")))
        ELSE IF IsFalsy(deviceId)
        THEN FileOut(file, Resp(400, Error("deviceId required")))
        ELSE FileOut(saveServerData(l.file, d3, w.save),
                     Resp(200, [ok |-> TRUE, allow |-> d3.allow]))

\* Mutant of postAllowSrv: a new identifier goes to the front of the allow list.
postAllowSrv_front(file, body, w) ==
    LET deviceId == body.deviceId
        l == loadServerData(file, w.load)
        d1 == [l.data EXCEPT !.pending = without(l.data.pending, deviceId)]
        d2 == [d1 EXCEPT !.block = without(d1.block, deviceId)]
        d3 == [d2 EXCEPT !.allow = IF includes(d2.allow, deviceId)
                                   THEN d2.allow
                                   ELSE <<deviceId>> \o d2.allow]
    IN  IF ~body.valid
        THEN FileOut(file, Resp(400, Error("Invalid JSON")))
        ELSE IF IsFalsy(deviceId)
        THEN FileOut(file, Resp(400, Error("deviceId required")))
        ELSE FileOut(saveServerData(l.file, d3, w.save),
                     Resp(200, [ok |-> TRUE, allow |-> d3.allow]))

postAllowSrv(file, body, w) ==
    LET deviceId == body.deviceId
        l == loadServerData(file, w.load)
        d1 == [l.data EXCEPT !.pending = without(l.data.pending, deviceId)]
        d2 == [d1 EXCEPT !.block = without(d1.block, deviceId)]
        d3 == [d2 EXCEPT !.allow = pushIfAbsent(d2.allow, deviceId)]
    IN  IF ~body.valid
        THEN FileOut(file, Resp(400, Error("Invalid JSON")))
        ELSE IF IsFalsy(deviceId)
        THEN FileOut(file, Resp(400, Error("deviceId required")))
        ELSE FileOut(saveServerData(l.file, d3, w.save),
                     Resp(200, [ok |-> TRUE, allow |-> d3.allow]))

\* Mutant of postBlockSrv: the identifier is not removed from the allow list.
postBlockSrv_keepAllow(file, body, w) ==
    LET deviceId == body.deviceId
        l == loadServerData(file, w.load)
        d1 == [l.data EXCEPT !.pending = without(l.data.pending, deviceId)]
        d2 == d1
        d3 == [d2 EXCEPT !.block = pushIfAbsent(d2.block, deviceId)]
    IN  IF ~body.valid
        THEN FileOut(file, Resp(400, Error("Invalid JSON")))
        ELSE IF IsFalsy(deviceId)
        THEN FileOut(file, Resp(400, Error("deviceId required")))
        ELSE FileOut(saveServerData(l.file, d3, w.save),
                     Resp(200, [ok |-> TRUE, block |-> d3.block]))

postBlockSrv(file, body, w) ==
    LET deviceId == body.deviceId
        l == loadServerData(file, w.load)
        d1 == [l.data EXCEPT !.pending = without(l.data.pending, deviceId)]
        d2 == [d1 EXCEPT !.allow = without(d1.allow, deviceId)]
        d3 == [d2 EXCEPT !.block = pushIfAbsent(d2.block, deviceId)]
    IN  IF ~body.valid
        THEN FileOut(file, Resp(400, Error("Invalid JSON")))
        ELSE IF IsFalsy(deviceId)
        THEN FileOut(file, Resp(400, Error("deviceId required")))
        ELSE FileOut(saveServerData(l.file, d3, w.save),
                     Resp(200, [ok |-> TRUE, block |-> d3.block]))

\* Mutant of deleteAllowSrv: the identifier is put back into the pending list.
deleteAllowSrv_toPending(file, raw, w) ==
    LET l == loadServerData(file, w.load)
        d1 == [l.data EXCEPT !.allow = without(l.data.allow, raw),
                         !.pending = pushIfAbsent(l.data.pending, raw)]
    IN  IF IsFalsy(raw)
        THEN FileOut(file, Resp(400, Error("deviceId required")))
        ELSE FileOut(saveServerData(l.file, d1, w.save),
                     Resp(200, [ok |-> TRUE, allow |-> d1.allow]))

deleteAllowSrv(file, raw, w) ==
    LET l == loadServerData(file, w.load)
        d1 == [l.data EXCEPT !.allow = without(l.data.allow, raw)]
    IN  IF IsFalsy(raw)
        THEN FileOut(file, Resp(400, Error("deviceId required")))
        ELSE FileOut(saveServerData(l.file, d1, w.save),
                     Resp(200, [ok |-> TRUE, allow |-> d1.allow]))

deleteBlockSrv(file, raw, w) ==
    LET l == loadServerData(file, w.load)
        d1 == [l.data EXCEPT !.block = without(l.data.block, raw)]
    IN  IF IsFalsy(raw)
        THEN FileOut(file, Resp(400, Error("deviceId required")))
        ELSE FileOut(saveServerData(l.file, d1, w.save),
                     Resp(200, [ok |-> TRUE, block |-> d1.block]))

\* Mutant of deletePendingSrv: lastSeen is emptied with the pending list.
deletePendingSrv_resetSeen(file, w) ==
    LET l == loadServerData(file, w.load)
        d1 == [l.data EXCEPT !.pending = <<>>, !.lastSeen = NoLastSeen]
    IN  FileOut(saveServerData(l.file, d1, w.save),
                Resp(200, [ok |-> TRUE, pending |-> <<>>]))

deletePendingSrv(file, w) ==
    LET l == loadServerData(file, w.load)
        d1 == [l.data EXCEPT !.pending = <<>>]
    IN  FileOut(saveServerData(l.file, d1, w.save),
                Resp(200, [ok |-> TRUE, pending |-> <<>>]))

(***************************************************************************)
(* State                                                                   *)
(***************************************************************************)
Post(op, body) == [op |-> op, body |-> body]

\* The observer of a race between POST /allow and POST /block carrying the same
\* body: "both" while the two are in flight together, "one" once one of them has
\* been answered and the other is still in flight, "final" in the state the
\* answer to the other one leaves.
NoRace == [phase |-> "none", body |-> [valid |-> FALSE, deviceId |-> EmptyStr]]

RaceOff == [NoRace EXCEPT !.phase = "off"]

Paired(bag, body) ==
    BagIn(Post("allow", body), bag) /\ BagIn(Post("block", body), bag)

Observe(r, bag) ==
    IF r.phase = "off"
    THEN r
    ELSE IF \E body \in Bodies : Paired(bag, body)
    THEN [phase |-> "both", body |-> CHOOSE body \in Bodies : Paired(bag, body)]
    ELSE IF r.phase = "both"
    THEN [r EXCEPT !.phase = "one"]
    ELSE IF r.phase = "one"
    THEN IF BagIn(Post("allow", r.body), bag) \/ BagIn(Post("block", r.body), bag)
         THEN r
         ELSE [r EXCEPT !.phase = "final"]
    ELSE NoRace

Init ==
    /\ variant \in {"memory", "reload"}
    /\ state = SeedState
    /\ dataFile = SeedState
    /\ serverFile \in IF variant = "reload"
                      THEN {Absent, Corrupt, Stringify(seed)}
                      ELSE {Absent}
    /\ inflight = EmptyBag
    /\ race = RaceOff

\* The same, with the observer of allow/block races switched on.
InitRace ==
    /\ variant \in {"memory", "reload"}
    /\ state = SeedState
    /\ dataFile = SeedState
    /\ serverFile \in IF variant = "reload"
                      THEN {Absent, Corrupt, Stringify(seed)}
                      ELSE {Absent}
    /\ inflight = EmptyBag
    /\ race = NoRace

(***************************************************************************)
(* Memory variant: one action per route.  The response a step sends is the *)
(* `resp` of the handler operator it applies.                              *)
(***************************************************************************)
\* GET /check
MemCheck(raw) ==
    /\ variant = "memory"
    /\ UNCHANGED <<variant, state, dataFile, serverFile, inflight>>
    /\ race' = Observe(race, inflight')

\* GET /list
MemList(h) ==
    /\ variant = "memory"
    /\ UNCHANGED <<variant, state, dataFile, serverFile, inflight>>
    /\ race' = Observe(race, inflight')

\* POST /allow, POST /block: up to `await readBody(req)`
MemPostArrive(op, h, body) ==
    /\ variant = "memory"
    /\ BagCardinality(inflight) < MaxInflight
    /\ inflight' = IF isAuthorized(h, state)
                   THEN inflight (+) SetToBag({Post(op, body)})
                   ELSE inflight
    /\ UNCHANGED <<variant, state, dataFile, serverFile>>
    /\ race' = Observe(race, inflight')

\* POST /allow: from the end of the body
MemAllowEnd(body, w) ==
    /\ variant = "memory"
    /\ BagIn(Post("allow", body), inflight)
    /\ LET r == postAllowMem(state, dataFile, body, w)
       IN  state' = r.state /\ dataFile' = r.file
    /\ inflight' = inflight (-) SetToBag({Post("allow", body)})
    /\ UNCHANGED <<variant, serverFile>>
    /\ race' = Observe(race, inflight')

\* POST /block: from the end of the body
MemBlockEnd(body, w) ==
    /\ variant = "memory"
    /\ BagIn(Post("block", body), inflight)
    /\ LET r == postBlockMem(state, dataFile, body, w)
       IN  state' = r.state /\ dataFile' = r.file
    /\ inflight' = inflight (-) SetToBag({Post("block", body)})
    /\ UNCHANGED <<variant, serverFile>>
    /\ race' = Observe(race, inflight')

\* DELETE /allow
MemDeleteAllow(h, raw, w) ==
    /\ variant = "memory"
    /\ LET r == deleteAllowMem(state, dataFile, raw, w)
       IN  IF isAuthorized(h, state)
           THEN state' = r.state /\ dataFile' = r.file
           ELSE UNCHANGED <<state, dataFile>>
    /\ UNCHANGED <<variant, serverFile, inflight>>
    /\ race' = Observe(race, inflight')

\* DELETE /block
MemDeleteBlock(h, raw, w) ==
    /\ variant = "memory"
    /\ LET r == deleteBlockMem(state, dataFile, raw, w)
       IN  IF isAuthorized(h, state)
           THEN state' = r.state /\ dataFile' = r.file
           ELSE UNCHANGED <<state, dataFile>>
    /\ UNCHANGED <<variant, serverFile, inflight>>
    /\ race' = Observe(race, inflight')

\* DELETE /pending: no such route in this variant (401 or 404)
MemDeletePending(h) ==
    /\ variant = "memory"
    /\ UNCHANGED <<variant, state, dataFile, serverFile, inflight>>
    /\ race' = Observe(race, inflight')

(***************************************************************************)
(* Reload variant: one action per route                                    *)
(***************************************************************************)
\* A route behind the admin gate: the handler's result r (computed on the file
\* that authenticateRequest left) when the request is authorized, 401 otherwise.
Gate(a, r) == IF a.ok THEN r ELSE FileOut(a.file, unauthorized)

listRoute(h, file, w) ==
    LET a == authenticateRequest(h, file, w.auth)
    IN  Gate(a, listSrv(a.file, w))

deleteAllowRoute(h, file, raw, w) ==
    LET a == authenticateRequest(h, file, w.auth)
    IN  Gate(a, deleteAllowSrv(a.file, raw, w))

deleteBlockRoute(h, file, raw, w) ==
    LET a == authenticateRequest(h, file, w.auth)
    IN  Gate(a, deleteBlockSrv(a.file, raw, w))

deletePendingRoute(h, file, w) ==
    LET a == authenticateRequest(h, file, w.auth)
    IN  Gate(a, deletePendingSrv(a.file, w))

\* GET /check
SrvCheck(raw, now, w) ==
    /\ variant = "reload"
    /\ serverFile' = checkSrv(serverFile, raw, now, w).file
    /\ UNCHANGED <<variant, state, dataFile, inflight>>
    /\ race' = Observe(race, inflight')

\* GET /list
SrvList(h, w) ==
    /\ variant = "reload"
    /\ serverFile' = listRoute(h, serverFile, w).file
    /\ UNCHANGED <<variant, state, dataFile, inflight>>
    /\ race' = Observe(race, inflight')

\* POST /allow, POST /block: up to the registration of the 'end' listener
SrvPostArrive(op, h, body, w) ==
    /\ variant = "reload"
    /\ BagCardinality(inflight) < MaxInflight
    /\ LET a == authenticateRequest(h, serverFile, w.auth)
       IN  /\ serverFile' = a.file
           /\ inflight' = IF a.ok
                          THEN inflight (+) SetToBag({Post(op, body)})
                          ELSE inflight
    /\ UNCHANGED <<variant, state, dataFile>>
    /\ race' = Observe(race, inflight')

\* POST /allow: the 'end' listener
SrvAllowEnd(body, w) ==
    /\ variant = "reload"
    /\ BagIn(Post("allow", body), inflight)
    /\ serverFile' = postAllowSrv(serverFile, body, w).file
    /\ inflight' = inflight (-) SetToBag({Post("allow", body)})
    /\ UNCHANGED <<variant, state, dataFile>>
    /\ race' = Observe(race, inflight')

\* POST /block: the 'end' listener
SrvBlockEnd(body, w) ==
    /\ variant = "reload"
    /\ BagIn(Post("block", body), inflight)
    /\ serverFile' = postBlockSrv(serverFile, body, w).file
    /\ inflight' = inflight (-) SetToBag({Post("block", body)})
    /\ UNCHANGED <<variant, state, dataFile>>
    /\ race' = Observe(race, inflight')

\* DELETE /allow
SrvDeleteAllow(h, raw, w) ==
    /\ variant = "reload"
    /\ serverFile' = deleteAllowRoute(h, serverFile, raw, w).file
    /\ UNCHANGED <<variant, state, dataFile, inflight>>
    /\ race' = Observe(race, inflight')

\* DELETE /block
SrvDeleteBlock(h, raw, w) ==
    /\ variant = "reload"
    /\ serverFile' = deleteBlockRoute(h, serverFile, raw, w).file
    /\ UNCHANGED <<variant, state, dataFile, inflight>>
    /\ race' = Observe(race, inflight')

\* DELETE /pending
SrvDeletePending(h, w) ==
    /\ variant = "reload"
    /\ serverFile' = deletePendingRoute(h, serverFile, w).file
    /\ UNCHANGED <<variant, state, dataFile, inflight>>
    /\ race' = Observe(race, inflight')

(***************************************************************************)
(* Specification                                                           *)
(***************************************************************************)
\* The outcomes in W of the writes a route can make: a write the route never
\* makes has no outcome, and its flag stays TRUE.
Makes(W, writes) ==
    { w \in W : \A f \in {"auth", "load", "save"} \ writes : w[f] }

Step(W, H) ==
    \/ \E raw \in RawIds : MemCheck(raw)
    \/ \E h \in H : MemList(h)
    \/ \E op \in {"allow", "block"}, h \in H, body \in Bodies :
            MemPostArrive(op, h, body)
    \/ \E body \in Bodies, w \in Makes(W, {"save"}) : MemAllowEnd(body, w)
    \/ \E body \in Bodies, w \in Makes(W, {"save"}) : MemBlockEnd(body, w)
    \/ \E h \in H, raw \in RawIds, w \in Makes(W, {"save"}) :
            MemDeleteAllow(h, raw, w)
    \/ \E h \in H, raw \in RawIds, w \in Makes(W, {"save"}) :
            MemDeleteBlock(h, raw, w)
    \/ \E h \in H : MemDeletePending(h)
    \/ \E raw \in RawIds, now \in Times, w \in Makes(W, {"load", "save"}) :
            SrvCheck(raw, now, w)
    \/ \E h \in H, w \in Makes(W, {"auth", "load"}) : SrvList(h, w)
    \/ \E op \in {"allow", "block"}, h \in H, body \in Bodies,
          w \in Makes(W, {"auth"}) :
            SrvPostArrive(op, h, body, w)
    \/ \E body \in Bodies, w \in Makes(W, {"load", "save"}) : SrvAllowEnd(body, w)
    \/ \E body \in Bodies, w \in Makes(W, {"load", "save"}) : SrvBlockEnd(body, w)
    \/ \E h \in H, raw \in RawIds, w \in W : SrvDeleteAllow(h, raw, w)
    \/ \E h \in H, raw \in RawIds, w \in W : SrvDeleteBlock(h, raw, w)
    \/ \E h \in H, w \in W : SrvDeletePending(h, w)

Next == Step(WritesSucceed, Headers)

Spec == Init /\ [][Next]_vars

\* Two callers that hold the admin token race; the observer is switched on.
AdminHeaders == { h \in Headers : h.token = DEFAULT_ADMIN_TOKEN }

NextRace == Step(WritesSucceed, AdminHeaders)

SpecRace == InitRace /\ [][NextRace]_vars

(***************************************************************************)
(* The store, as the properties below read it                              *)
(***************************************************************************)
\* The records that hold the allow and block lists: the memory variant's
\* state and its data file, the reload variant's server file.
Stores == IF variant = "memory" THEN {state, dataFile} ELSE {serverFile}

\* The identifier under which a handler files a POST body: the memory variant
\* trims body.deviceId, the reload variant takes it as it is.
MemKey(body) == trim(BodyId(body))
SrvKey(body) == BodyId(body)

MemAllowOk(body) == postAllowMem(state, dataFile, body, AllWritesOk).resp.code = 200
MemBlockOk(body) == postBlockMem(state, dataFile, body, AllWritesOk).resp.code = 200
SrvAllowOk(body) == postAllowSrv(serverFile, body, AllWritesOk).resp.code = 200
SrvBlockOk(body) == postBlockSrv(serverFile, body, AllWritesOk).resp.code = 200

OnlyAllowed(s, d) == Count(s.allow, d) = 1 /\ ~includes(s.block, d)
OnlyBlocked(s, d) == Count(s.block, d) = 1 /\ ~includes(s.allow, d)

\* The store a request finds in the server file: what loadServerData returns.
Loaded(file) == loadServerData(file, TRUE).data

(***************************************************************************)
(* C1: no device identifier is in both the allow set and the block set, in *)
(* memory and in the persisted record, in every state either variant       *)
(* reaches from a freshly seeded store.                                    *)
(***************************************************************************)
C1_AllowBlockDisjoint ==
    \A s \in Stores : Elems(s.allow) \cap Elems(s.block) = {}

\* Both lists are in use at once: one identifier allowed, another blocked.
C1_Witness ==
    /\ variant = "reload"
    /\ includes(serverFile.block, StrA)
    /\ includes(serverFile.allow, <<" ", "a">>)

(***************************************************************************)
(* C2: in the pending-tracking (reload) variant no identifier of the       *)
(* pending set is also in the allow set or the block set.                  *)
(***************************************************************************)
C2_PendingUnclassified ==
    variant = "reload" =>
        Elems(serverFile.pending)
            \cap (Elems(serverFile.allow) \cup Elems(serverFile.block)) = {}

\* A device is pending while other identifiers are allowed and blocked.
C2_Witness ==
    /\ variant = "reload"
    /\ includes(serverFile.pending, StrA)
    /\ serverFile.allow # <<>>
    /\ serverFile.block # <<>>

(***************************************************************************)
(* C3: after an accepted allow(d) the allow set holds d exactly once and d *)
(* is in neither the block set nor the pending set, whatever d was before; *)
(* an allow(d) on a store where d is already allowed changes nothing.  d   *)
(* is the identifier the handler files the request under.                  *)
(***************************************************************************)
C3_AllowPostcondition ==
    [][\A body \in Bodies :
        /\ (MemAllowEnd(body, AllWritesOk) /\ MemAllowOk(body)) =>
                LET d == MemKey(body)
                IN  /\ OnlyAllowed(state', d)
                    /\ OnlyAllowed(dataFile', d)
                    /\ OnlyAllowed(state, d) =>
                            state' = state /\ dataFile' = dataFile
        /\ (SrvAllowEnd(body, AllWritesOk) /\ SrvAllowOk(body)) =>
                LET d == SrvKey(body)
                IN  /\ OnlyAllowed(serverFile', d)
                    /\ ~includes(serverFile'.pending, d)
                    /\ (OnlyAllowed(serverFile, d) /\ ~includes(serverFile.pending, d)) =>
                            serverFile' = serverFile
    ]_vars

\* An identifier that a check has seen (so it was pending) is now allowed.
C3_Witness ==
    /\ variant = "reload"
    /\ OnlyAllowed(serverFile, StrA)
    /\ StrA \in DOMAIN serverFile.lastSeen
    /\ ~includes(serverFile.pending, StrA)

(***************************************************************************)
(* C4: after an accepted block(d) the block set holds d and d is in        *)
(* neither the allow set nor the pending set, whatever d was before, and a *)
(* list() issued then shows d in the block set only.                       *)
(***************************************************************************)
C4_BlockPostcondition ==
    [][\A body \in Bodies :
        /\ (MemBlockEnd(body, AllWritesOk) /\ MemBlockOk(body)) =>
                LET d == MemKey(body)
                    shown == listMem(state').body
                IN  /\ OnlyBlocked(state', d)
                    /\ OnlyBlocked(dataFile', d)
                    /\ includes(shown.block, d) /\ ~includes(shown.allow, d)
        /\ (SrvBlockEnd(body, AllWritesOk) /\ SrvBlockOk(body)) =>
                LET d == SrvKey(body)
                    shown == listSrv(serverFile', AllWritesOk).resp.body
                IN  /\ OnlyBlocked(serverFile', d)
                    /\ ~includes(serverFile'.pending, d)
                    /\ includes(shown.block, d)
                    /\ ~includes(shown.allow, d)
                    /\ ~includes(shown.pending, d)
    ]_vars

\* An identifier that a check has seen is now blocked, beside an allowed one.
C4_Witness ==
    /\ variant = "reload"
    /\ OnlyBlocked(serverFile, StrA)
    /\ StrA \in DOMAIN serverFile.lastSeen
    /\ serverFile.allow # <<>>

(***************************************************************************)
(* C5: after an allow(d) that answered ok, check(d) answers allowed=true,  *)
(* forceExit=false, reason="".  Stated for the check that directly follows *)
(* the allow, with d as the caller sent it to both, and for identifiers    *)
(* that are not empty after trimming.                                      *)
(***************************************************************************)
C5_AllowThenCheck ==
    [][\A body \in Bodies :
        trim(BodyId(body)) # EmptyStr =>
            /\ (MemAllowEnd(body, AllWritesOk) /\ MemAllowOk(body)) =>
                    checkMem(state', body.deviceId).body = Decision(TRUE, "")
            /\ (SrvAllowEnd(body, AllWritesOk) /\ SrvAllowOk(body)) =>
                    \A now \in Times :
                        checkSrv(serverFile', body.deviceId, now, AllWritesOk).resp.body
                            = Decision(TRUE, "")
    ]_vars

(***************************************************************************)
(* C6: for every identifier d of the block set, check(d) answers           *)
(* allowed=false, forceExit=true and reason exactly "blocked".  Stated for *)
(* identifiers that trimming leaves as they are.                           *)
(***************************************************************************)
C6_BlockedReason ==
    \A d \in RawIds :
        d = trim(d) =>
            /\ (variant = "memory" /\ includes(state.block, d)) =>
                    checkMem(state, d).body = Decision(FALSE, "blocked")
            /\ (variant = "reload" /\ includes(serverFile.block, d)) =>
                    \A now \in Times :
                        checkSrv(serverFile, d, now, AllWritesOk).resp.body
                            = Decision(FALSE, "blocked")

(***************************************************************************)
(* C7: a check of an unclassified identifier d (the trimmed deviceId, in   *)
(* neither allow nor block) leaves d in the pending set exactly once,      *)
(* however many checks came before, and answers allowed=false,             *)
(* forceExit=true, reason="not allowed".  Stated of the result of the      *)
(* check on every store reached, the stores that earlier checks of d left  *)
(* among them.                                                             *)
(***************************************************************************)
C7_PendingOnce ==
    \A raw \in RawIds :
        LET d == trim(raw)
        IN  d # EmptyStr =>
            /\ (/\ variant = "reload"
                /\ ~includes(Loaded(serverFile).allow, d)
                /\ ~includes(Loaded(serverFile).block, d)) =>
                    \A now \in Times :
                        LET r == checkSrv(serverFile, raw, now, AllWritesOk)
                        IN  /\ Count(r.file.pending, d) = 1
                            /\ r.resp = Resp(200, Decision(FALSE, "not allowed"))
            /\ (/\ variant = "memory"
                /\ ~includes(state.allow, d)
                /\ ~includes(state.block, d)) =>
                    checkMem(state, raw) = Resp(200, Decision(FALSE, "not allowed"))

\* A pending identifier whose last check came at the latest time.
C7_Witness ==
    /\ variant = "reload"
    /\ Count(serverFile.pending, StrA) = 1
    /\ StrA \in DOMAIN serverFile.lastSeen
    /\ serverFile.lastSeen[StrA] = MaxTime

(***************************************************************************)
(* C8: a check with an empty or whitespace-only deviceId answers           *)
(* allowed=false, forceExit=true, reason="missing deviceId" and changes    *)
(* nothing: state, the data file and the server file (allow, block,        *)
(* pending, lastSeen) stay as they were.  Stated of the result of the      *)
(* check on every store reached; the memory variant's check assigns        *)
(* nothing.                                                                *)
(***************************************************************************)
C8_MissingDeviceId ==
    \A raw \in RawIds :
        trim(raw) = EmptyStr =>
            /\ variant = "reload" =>
                \A now \in Times :
                    LET r == checkSrv(serverFile, raw, now, AllWritesOk)
                    IN  /\ r.file = serverFile
                        /\ r.resp.body = Decision(FALSE, "missing deviceId")
            /\ variant = "memory" =>
                checkMem(state, raw).body = Decision(FALSE, "missing deviceId")

\* A store with a pending device and a lastSeen entry, which a check that
\* did not return early would rewrite.
C8_Witness ==
    /\ variant = "reload"
    /\ serverFile.pending # <<>>
    /\ DOMAIN serverFile.lastSeen # {}
    /\ serverFile.allow # <<>>

(***************************************************************************)
(* C9: no empty or whitespace-only string is ever a member of the allow    *)
(* set or the block set (allow and block reject such identifiers).         *)
(***************************************************************************)
C9_NoBlankMember ==
    \A s \in Stores :
        \A x \in Elems(s.allow) \cup Elems(s.block) : trim(x) # EmptyStr

\* The identifier the observed race is about.
RaceKey == IF variant = "memory" THEN MemKey(race.body) ELSE SrvKey(race.body)

(***************************************************************************)
(* C10: when an allow(d) and a block(d) were in flight together, the store *)
(* that the answer to the second of them leaves has d in exactly one of    *)
(* the allow set and the block set, whatever the order of the steps.       *)
(***************************************************************************)
C10_RaceLeavesOne ==
    (race.phase = "final" /\ RaceKey # EmptyStr) =>
        \A s \in Stores : includes(s.allow, RaceKey) # includes(s.block, RaceKey)

\* Both requests of a race on "a" have been answered; the block came last.
C10_Witness ==
    /\ race.phase = "final"
    /\ RaceKey = StrA
    /\ variant = "reload"
    /\ includes(serverFile.block, StrA)

(***************************************************************************)
(* C11: every mutating operation reads, applies and persists in one step,  *)
(* so no update is lost under concurrent requests: an identifier leaves    *)
(* the allow list only by a block or an unallow of that identifier, leaves *)
(* the block list only by an allow or an unblock of it, leaves the pending *)
(* list only by an allow or block of it or by clearPending, no lastSeen    *)
(* entry is dropped, and no step, a check racing with an allow included,   *)
(* leaves an identifier pending that was allowed and stays allowed.        *)
(***************************************************************************)
C11_NoLostUpdate ==
    [][(serverFile' # serverFile \/ state' # state \/ dataFile' # dataFile) =>
        \A d \in RawIds :
            /\ variant = "reload" =>
                /\ (includes(serverFile.allow, d) /\ ~includes(serverFile'.allow, d)) =>
                        \/ \E body \in Bodies :
                                SrvKey(body) = d /\ SrvBlockEnd(body, AllWritesOk)
                        \/ \E h \in AdminHeaders : SrvDeleteAllow(h, d, AllWritesOk)
                /\ (includes(serverFile.block, d) /\ ~includes(serverFile'.block, d)) =>
                        \/ \E body \in Bodies :
                                SrvKey(body) = d /\ SrvAllowEnd(body, AllWritesOk)
                        \/ \E h \in AdminHeaders : SrvDeleteBlock(h, d, AllWritesOk)
                /\ (includes(serverFile.pending, d) /\ ~includes(serverFile'.pending, d)) =>
                        \/ \E body \in Bodies :
                                /\ SrvKey(body) = d
                                /\ SrvAllowEnd(body, AllWritesOk) \/ SrvBlockEnd(body, AllWritesOk)
                        \/ \E h \in AdminHeaders : SrvDeletePending(h, AllWritesOk)
                /\ d \in DOMAIN serverFile.lastSeen => d \in DOMAIN serverFile'.lastSeen
                /\ (/\ includes(serverFile.allow, d)
                    /\ ~includes(serverFile.pending, d)
                    /\ includes(serverFile'.allow, d)) =>
                        ~includes(serverFile'.pending, d)
            /\ variant = "memory" =>
                /\ ((includes(state.allow, d) /\ ~includes(state'.allow, d))
                        \/ (includes(dataFile.allow, d) /\ ~includes(dataFile'.allow, d))) =>
                        \/ \E body \in Bodies :
                                MemKey(body) = d /\ MemBlockEnd(body, AllWritesOk)
                        \/ \E h \in AdminHeaders, raw \in RawIds :
                                trim(raw) = d /\ MemDeleteAllow(h, raw, AllWritesOk)
                /\ ((includes(state.block, d) /\ ~includes(state'.block, d))
                        \/ (includes(dataFile.block, d) /\ ~includes(dataFile'.block, d))) =>
                        \/ \E body \in Bodies :
                                MemKey(body) = d /\ MemAllowEnd(body, AllWritesOk)
                        \/ \E h \in AdminHeaders, raw \in RawIds :
                                trim(raw) = d /\ MemDeleteBlock(h, raw, AllWritesOk)
    ]_vars

\* A check of "a" at the latest time and an allow of "a" have both been
\* served while another POST is still in flight.
C11_Witness ==
    /\ variant = "reload"
    /\ includes(serverFile.allow, StrA)
    /\ StrA \in DOMAIN serverFile.lastSeen
    /\ serverFile.lastSeen[StrA] = MaxTime
    /\ inflight # EmptyBag

(***************************************************************************)
(* The same program on a disk whose writes may fail: every writeFileSync   *)
(* of a request (the seed written by a load, the save of a mutation)       *)
(* either succeeds or throws, and the throw is caught as the code does.    *)
(* The callers hold the admin token.                                       *)
(***************************************************************************)
NextFail == Step(WritesMayFail, AdminHeaders)

SpecFail == Init /\ [][NextFail]_vars

\* Whichever mutating request is served next, with whichever outcome of its
\* writes among those whose save outcome is in S: when it answers ok, the
\* persisted record it leaves holds the list it answers (and, in the memory
\* variant, the lists of state).
MemPersisted(r, list) ==
    r.resp.code = 200 =>
        /\ r.file[list] = r.resp.body[list]
        /\ r.file.allow = r.state.allow
        /\ r.file.block = r.state.block

SrvPersisted(r, list) ==
    r.resp.code = 200 => r.file[list] = r.resp.body[list]

AckedIsPersisted(S) ==
    \A w \in WritesMayFail :
        w.save \in S =>
            /\ variant = "memory" =>
                /\ \A body \in Bodies :
                    /\ MemPersisted(postAllowMem(state, dataFile, body, w), "allow")
                    /\ MemPersisted(postBlockMem(state, dataFile, body, w), "block")
                /\ \A raw \in RawIds :
                    /\ MemPersisted(deleteAllowMem(state, dataFile, raw, w), "allow")
                    /\ MemPersisted(deleteBlockMem(state, dataFile, raw, w), "block")
            /\ variant = "reload" =>
                /\ \A body \in Bodies :
                    /\ SrvPersisted(postAllowSrv(serverFile, body, w), "allow")
                    /\ SrvPersisted(postBlockSrv(serverFile, body, w), "block")
                /\ \A h \in AdminHeaders :
                    /\ \A raw \in RawIds :
                        /\ SrvPersisted(deleteAllowRoute(h, serverFile, raw, w), "allow")
                        /\ SrvPersisted(deleteBlockRoute(h, serverFile, raw, w), "block")
                    /\ SrvPersisted(deletePendingRoute(h, serverFile, w), "pending")

C13_FailedWriteStaysApplied ==
    [][\A body \in Bodies, w \in WritesMayFail :
        LET d == BodyId(body)
        IN  (d # EmptyStr /\ d = trim(d) /\ ~w.save) =>
            /\ (MemAllowEnd(body, w) /\ MemAllowOk(body)) =>
                    /\ includes(listMem(state').body.allow, d)
                    /\ checkMem(state', d).body.allowed
            /\ (MemBlockEnd(body, w) /\ MemBlockOk(body)) =>
                    /\ includes(listMem(state').body.block, d)
                    /\ ~checkMem(state', d).body.allowed
            /\ (SrvAllowEnd(body, w) /\ SrvAllowOk(body)) =>
                    /\ includes(listSrv(serverFile', AllWritesOk).resp.body.allow, d)
                    /\ \A now \in Times :
                        checkSrv(serverFile', d, now, AllWritesOk).resp.body.allowed
            /\ (SrvBlockEnd(body, w) /\ SrvBlockOk(body)) =>
                    /\ includes(listSrv(serverFile', AllWritesOk).resp.body.block, d)
                    /\ \A now \in Times :
                        ~checkSrv(serverFile', d, now, AllWritesOk).resp.body.allowed
    ]_vars

(***************************************************************************)
(* C14: list() is read-only in every store state, a missing or unreadable  *)
(* persisted record included: a served list() leaves state, the data file  *)
(* and the server file (allow, block, pending, lastSeen, adminToken) as    *)
(* they were and writes nothing.                                           *)
(***************************************************************************)
C14_ListReadOnly ==
    [][\A h \in AdminHeaders :
        /\ MemList(h) => (state' = state /\ dataFile' = dataFile)
        /\ SrvList(h, AllWritesOk) => serverFile' = serverFile
    ]_vars

(***************************************************************************)
(* C15: an authorized clearPending() leaves the pending list empty and     *)
(* the allow list, the block list, lastSeen and the adminToken as the      *)
(* store held them before the call, and the persisted record holds that    *)
(* store.  (The memory variant has no pending list and no such route: its  *)
(* state and data file stay as they were.)                                 *)
(***************************************************************************)
C15_ClearPendingFrame ==
    [][\A h \in AdminHeaders :
        /\ SrvDeletePending(h, AllWritesOk) =>
                /\ serverFile'.kind = "json"
                /\ serverFile'.pending = <<>>
                /\ Loaded(serverFile') = [Loaded(serverFile) EXCEPT !.pending = <<>>]
        /\ MemDeletePending(h) => (state' = state /\ dataFile' = dataFile)
    ]_vars

\* The pending list is empty though a device that has checked in is neither
\* allowed nor blocked, and another identifier is still allowed.
C15_Witness ==
    /\ variant = "reload"
    /\ serverFile.pending = <<>>
    /\ StrA \in DOMAIN serverFile.lastSeen
    /\ ~includes(serverFile.allow, StrA)
    /\ ~includes(serverFile.block, StrA)
    /\ serverFile.allow # <<>>

(***************************************************************************)
(* C16: an authorized unallow(d) takes d out of the allow list and leaves  *)
(* the rest of the allow list, the block list, the pending list and        *)
(* lastSeen as they were; unblock(d) does the same to the block list; d is *)
(* not put into pending; on an identifier that is not in the list the call *)
(* answers ok and the store stays as it was.  d is the identifier the      *)
(* handler files the request under; an empty d is rejected or changes      *)
(* nothing.  Stated of the result of the call on every store reached.      *)
(***************************************************************************)
C16_RemoveOnly ==
    \A h \in AdminHeaders, raw \in RawIds :
        /\ variant = "reload" =>
            LET b == Loaded(serverFile)
                ua == deleteAllowRoute(h, serverFile, raw, AllWritesOk)
                ub == deleteBlockRoute(h, serverFile, raw, AllWritesOk)
                a == Loaded(ua.file)
                c == Loaded(ub.file)
            IN  /\ raw # EmptyStr => (ua.resp.code = 200 /\ ub.resp.code = 200)
                /\ ~includes(a.allow, raw)
                /\ \A x \in RawIds \ {raw} : Count(a.allow, x) = Count(b.allow, x)
                /\ a.block = b.block
                /\ a.pending = b.pending
                /\ a.lastSeen = b.lastSeen
                /\ ~includes(b.allow, raw) => a = b
                /\ ~includes(c.block, raw)
                /\ \A x \in RawIds \ {raw} : Count(c.block, x) = Count(b.block, x)
                /\ c.allow = b.allow
                /\ c.pending = b.pending
                /\ c.lastSeen = b.lastSeen
                /\ ~includes(b.block, raw) => c = b
        /\ variant = "memory" =>
            LET d == trim(raw)
                ua == deleteAllowMem(state, dataFile, raw, AllWritesOk)
                ub == deleteBlockMem(state, dataFile, raw, AllWritesOk)
            IN  /\ ua.resp.code = 200 /\ ub.resp.code = 200
                /\ ~includes(ua.state.allow, d)
                /\ \A x \in RawIds \ {d} :
                        Count(ua.state.allow, x) = Count(state.allow, x)
                /\ ua.state.block = state.block
                /\ ua.file = ua.state
                /\ ~includes(state.allow, d) => ua.state = state
                /\ ~includes(ub.state.block, d)
                /\ \A x \in RawIds \ {d} :
                        Count(ub.state.block, x) = Count(state.block, x)
                /\ ub.state.allow = state.allow
                /\ ub.file = ub.state
                /\ ~includes(state.block, d) => ub.state = state

\* A device that has checked in is in no list at all, and nothing is allowed,
\* while another identifier is blocked.
C16_Witness ==
    /\ variant = "reload"
    /\ StrA \in DOMAIN serverFile.lastSeen
    /\ ~includes(serverFile.allow, StrA)
    /\ ~includes(serverFile.block, StrA)
    /\ ~includes(serverFile.pending, StrA)
    /\ serverFile.allow = <<>>
    /\ serverFile.block # <<>>

\* GET /list of the memory variant behind its admin gate.
listRouteMem(h, st) == IF isAuthorized(h, st) THEN listMem(st) ELSE unauthorized

\* The store's adminToken, and the requests whose bearer credential equals it.
StoreToken ==
    IF variant = "memory" THEN state.adminToken ELSE Loaded(serverFile).adminToken

HoldsToken(h) == h.scheme = "Bearer" /\ h.token = StoreToken

\* Every admin request without the store's adminToken is answered 401 with no
\* list in the answer and leaves the store as it was.
RejectsStrangers ==
    \A h \in Headers :
        ~HoldsToken(h) =>
            /\ variant = "memory" =>
                /\ ~isAuthorized(h, state)
                /\ listRouteMem(h, state) = unauthorized
            /\ variant = "reload" =>
                /\ ~authenticateRequest(h, serverFile, TRUE).ok
                /\ Loaded(authenticateRequest(h, serverFile, TRUE).file)
                        = Loaded(serverFile)
                /\ LET l == listRoute(h, serverFile, AllWritesOk)
                       p == deletePendingRoute(h, serverFile, AllWritesOk)
                   IN  /\ l.resp = unauthorized /\ Loaded(l.file) = Loaded(serverFile)
                       /\ p.resp = unauthorized /\ Loaded(p.file) = Loaded(serverFile)
                /\ \A raw \in RawIds :
                    LET ua == deleteAllowRoute(h, serverFile, raw, AllWritesOk)
                        ub == deleteBlockRoute(h, serverFile, raw, AllWritesOk)
                    IN  /\ ua.resp = unauthorized /\ Loaded(ua.file) = Loaded(serverFile)
                        /\ ub.resp = unauthorized /\ Loaded(ub.file) = Loaded(serverFile)

\* A step that changes the allow or block list, or takes a POST in, is a step
\* of a request that carries the store's adminToken: the arrival of such a
\* POST, the end of a POST taken in before, or a DELETE.
OnlyByAdmins ==
    /\ BagCardinality(inflight') > BagCardinality(inflight) =>
            \E op \in {"allow", "block"}, body \in Bodies, h \in Headers :
                /\ HoldsToken(h)
                /\ MemPostArrive(op, h, body) \/ SrvPostArrive(op, h, body, AllWritesOk)
    /\ (\/ state'.allow # state.allow
        \/ state'.block # state.block
        \/ Loaded(serverFile').allow # Loaded(serverFile).allow
        \/ Loaded(serverFile').block # Loaded(serverFile).block) =>
            \/ BagCardinality(inflight') < BagCardinality(inflight)
            \/ \E h \in Headers, raw \in RawIds :
                /\ HoldsToken(h)
                /\ \/ MemDeleteAllow(h, raw, AllWritesOk)
                   \/ MemDeleteBlock(h, raw, AllWritesOk)
                   \/ SrvDeleteAllow(h, raw, AllWritesOk)
                   \/ SrvDeleteBlock(h, raw, AllWritesOk)

(***************************************************************************)
(* C17: a request for allow, block, unallow, unblock, clearPending or list *)
(* whose bearer credential is not the store's adminToken changes no store  *)
(* state and is answered without store contents; check needs no            *)
(* credential; the allow and block lists change only through requests     *)
(* that carry the adminToken.                                              *)
(***************************************************************************)
C17_AdminOnly == [](RejectsStrangers) /\ [][OnlyByAdmins]_vars

\* A device has checked in without any credential and is pending, one
\* identifier is allowed, and an accepted POST is in flight.
C17_Witness ==
    /\ variant = "reload"
    /\ serverFile.pending # <<>>
    /\ serverFile.allow # <<>>
    /\ inflight # EmptyBag

(***************************************************************************)
(* C18: every check(d) with a non-empty identifier d sets lastSeen[d] to   *)
(* the time of the call, whatever d's classification; a list() issued next *)
(* shows it; the lastSeen entries of other identifiers stay as they were.  *)
(* Stated of the result of the call on every store reached; the memory     *)
(* variant's check leaves state as it is.                                  *)
(***************************************************************************)
C18_LastSeenRecorded ==
    \A raw \in RawIds :
        LET d == trim(raw)
        IN  d # EmptyStr =>
            /\ variant = "reload" =>
                \A now \in Times :
                    LET old == Loaded(serverFile).lastSeen
                        after == checkSrv(serverFile, raw, now, AllWritesOk).file
                        shown == listSrv(after, AllWritesOk).resp.body
                    IN  /\ DOMAIN shown.lastSeen = DOMAIN old \cup {d}
                        /\ shown.lastSeen[d] = now
                        /\ \A x \in DOMAIN old \ {d} : shown.lastSeen[x] = old[x]
            /\ variant = "memory" =>
                LET shown == listMem(state).body
                IN  /\ "lastSeen" \in DOMAIN shown
                    /\ d \in DOMAIN shown.lastSeen

(***************************************************************************)
(* C19: check never changes a classification: for every identifier and     *)
(* every store reached, the store a check(d) leaves has the allow list and *)
(* the block list it found, and the pending list it found when d is        *)
(* already allowed or blocked.  (The memory variant's check assigns        *)
(* nothing: its step leaves state and the data file as they are.)          *)
(***************************************************************************)
C19_CheckKeepsClassification ==
    variant = "reload" =>
        \A raw \in RawIds, now \in Times :
            LET d == trim(raw)
                b == Loaded(serverFile)
                a == Loaded(checkSrv(serverFile, raw, now, AllWritesOk).file)
            IN  /\ a.allow = b.allow
                /\ a.block = b.block
                /\ (includes(b.allow, d) \/ includes(b.block, d)) =>
                        a.pending = b.pending

\* A blocked device has checked in at the latest time; nothing is pending.
C19_Witness ==
    /\ variant = "reload"
    /\ includes(serverFile.block, StrA)
    /\ StrA \in DOMAIN serverFile.lastSeen
    /\ serverFile.lastSeen[StrA] = MaxTime
    /\ serverFile.pending = <<>>

(***************************************************************************)
(* The two variants side by side: one process of each, started on a fresh  *)
(* store, served the same sequence of requests one after the other by a    *)
(* caller that holds the admin token; every write succeeds.  The memory    *)
(* variant runs on state and the data file, the reload variant on the      *)
(* server file.                                                            *)
(***************************************************************************)
StrB == <<"b">>
StrC == <<"c">>

\* Identifiers that are not empty and that trimming leaves as they are.
EquivIds == { StrA, StrB, StrC }

TheAdmin == [scheme |-> "Bearer", token |-> DEFAULT_ADMIN_TOKEN]

JsonBody(d) == [valid |-> TRUE, deviceId |-> d]

InitEquiv ==
    /\ variant = "both"
    /\ state = SeedState
    /\ dataFile = SeedState
    /\ serverFile \in {Absent, Corrupt, Stringify(seed)}
    /\ inflight = EmptyBag
    /\ race = RaceOff

\* What the memory variant makes of a request behind its admin gate.
GateMem(h, r) == IF isAuthorized(h, state) THEN r ELSE Out(state, dataFile, unauthorized)

\* POST /allow or POST /block of the reload variant, from arrival to answer.
postRoute(op, h, file, body, w) ==
    LET a == authenticateRequest(h, file, w.auth)
    IN  Gate(a, IF op = "allow" THEN postAllowSrv(a.file, body, w)
                                ELSE postBlockSrv(a.file, body, w))

\* GET /check?deviceId=d to both
EqCheck(d, now) ==
    /\ variant = "both"
    /\ serverFile' = checkSrv(serverFile, d, now, AllWritesOk).file
    /\ UNCHANGED <<variant, state, dataFile, inflight, race>>

\* POST /allow {"deviceId": d} to both
EqAllow(d) ==
    /\ variant = "both"
    /\ LET m == GateMem(TheAdmin, postAllowMem(state, dataFile, JsonBody(d), AllWritesOk))
       IN  state' = m.state /\ dataFile' = m.file
    /\ serverFile' = postRoute("allow", TheAdmin, serverFile, JsonBody(d), AllWritesOk).file
    /\ UNCHANGED <<variant, inflight, race>>

\* POST /block {"deviceId": d} to both
EqBlock(d) ==
    /\ variant = "both"
    /\ LET m == GateMem(TheAdmin, postBlockMem(state, dataFile, JsonBody(d), AllWritesOk))
       IN  state' = m.state /\ dataFile' = m.file
    /\ serverFile' = postRoute("block", TheAdmin, serverFile, JsonBody(d), AllWritesOk).file
    /\ UNCHANGED <<variant, inflight, race>>

\* DELETE /allow?deviceId=d to both
EqUnallow(d) ==
    /\ variant = "both"
    /\ LET m == GateMem(TheAdmin, deleteAllowMem(state, dataFile, d, AllWritesOk))
       IN  state' = m.state /\ dataFile' = m.file
    /\ serverFile' = deleteAllowRoute(TheAdmin, serverFile, d, AllWritesOk).file
    /\ UNCHANGED <<variant, inflight, race>>

\* DELETE /block?deviceId=d to both
EqUnblock(d) ==
    /\ variant = "both"
    /\ LET m == GateMem(TheAdmin, deleteBlockMem(state, dataFile, d, AllWritesOk))
       IN  state' = m.state /\ dataFile' = m.file
    /\ serverFile' = deleteBlockRoute(TheAdmin, serverFile, d, AllWritesOk).file
    /\ UNCHANGED <<variant, inflight, race>>

NextEquiv ==
    \/ \E d \in EquivIds, now \in Times : EqCheck(d, now)
    \/ \E d \in EquivIds : EqAllow(d)
    \/ \E d \in EquivIds : EqBlock(d)
    \/ \E d \in EquivIds : EqUnallow(d)
    \/ \E d \in EquivIds : EqUnblock(d)

SpecEquiv == InitEquiv /\ [][NextEquiv]_vars

(***************************************************************************)
(* C20: after every sequence of allow, block, unallow, unblock and check   *)
(* requests with non-empty trimmed identifiers, served by both variants    *)
(* with no failure, the two hold the same allow list and the same block    *)
(* list (members and order) and answer every check with the same allowed   *)
(* and forceExit.                                                          *)
(***************************************************************************)
C20_VariantsAgree ==
    variant = "both" =>
        /\ Loaded(serverFile).allow = state.allow
        /\ Loaded(serverFile).block = state.block
        /\ \A d \in EquivIds, now \in Times :
            LET m == checkMem(state, d).body
                s == checkSrv(serverFile, d, now, AllWritesOk).resp.body
            IN  m.allowed = s.allowed /\ m.forceExit = s.forceExit

\* Both variants hold "b" before "a" in the allow list, after both devices
\* have checked in.
C20_Witness ==
    /\ variant = "both"
    /\ state.allow = <<StrB, StrA>>
    /\ serverFile.allow = <<StrB, StrA>>
    /\ {StrA, StrB} \subseteq DOMAIN serverFile.lastSeen

====
